---------------------------- MODULE Spec2Model ----------------------------
(***************************************************************************)
(* Model of jla_like_us.py: the JLA supernova log-posterior evaluator      *)
(* (priors, sn_like_walk, mu_model) and the interpolation table loader     *)
(* (dL_init).                                                              *)
(*                                                                         *)
(* Numbers.  The program computes in floating point; the model computes    *)
(* exactly, in fixed point, with these units:                              *)
(*   - magnitudes (M0, sM0, delM, mB, mu, the magnitude slots of Y0 and of *)
(*     the residual), the coefficients alfa and beta, the densities Om0    *)
(*     and OL0 and the host mass mst are integers counting TENTHS (1.2 is  *)
(*     12, -17. is -170, 10.0 is 100);                                     *)
(*   - stretch and color (x1, c, x10, eta_x1, sx1, c0, eta_c, sc, the      *)
(*     stretch and color slots) and the redshifts count WHOLE units (5. is *)
(*     5); a product coefficient * stretch is then in tenths, as the       *)
(*     magnitudes it is added to are;                                      *)
(*   - the covariance entries are in the product of the units of their row *)
(*     and column;                                                         *)
(*   - log-prior values count units of 1.e8 (-1.e9 is -10, -1.e8 is -1).   *)
(* The returned ln(posterior) of the likelihood stage is kept as the tuple *)
(* of the exact quantities that determine it (see Like).                   *)
(*                                                                         *)
(* Memory.  Arrays and the keyword dictionary are objects of a heap, mem;  *)
(* an object is <<owner, name>>, owner 0 for the caller's objects and      *)
(* p > 0 for the objects evaluation p allocates.                           *)
(***************************************************************************)
EXTENDS Integers, Sequences, FiniteSets, TLC

VARIABLES
    mem,      \* the heap: object -> array, matrix or dictionary
    pc,       \* pc[p]: where evaluation p of sn_like_walk stands
    loc,      \* loc[p]: the scalar locals of evaluation p
    outcome,  \* outcome[p]: how evaluation p ended (a return or a raise)
    ran,      \* ran[p]: the stages the current call of p has executed
    orig,     \* the caller's objects as they were constructed
    ncalls,   \* calls of sn_like_walk started so far
    active,   \* the evaluations (workers) that run
    pr,       \* one call of priors: its arguments and its result
    dl        \* one call of dL_init: its arguments, loop state and result

vars == <<mem, pc, loc, outcome, ran, orig, ncalls, active, pr, dl>>

-----------------------------------------------------------------------------
(* Bounds *)

\* calls of sn_like_walk in one behaviour
MaxCalls == 2

\* how far beyond the outermost prior bounds (-21. and 5.) the values
\* handed to priors reach
XMargin == 5

\* supernovae in the inputs of dL_init
MaxSn == 3

-----------------------------------------------------------------------------
(* Helpers on sequences and matrices *)

Range(s) == {s[i] : i \in DOMAIN s}

Zeros(n) == [i \in 1..n |-> 0]

ZeroMat(n) == [i \in 1..n |-> [j \in 1..n |-> 0]]

MatAdd(A, B) == [i \in DOMAIN A |-> [j \in DOMAIN A[i] |-> A[i][j] + B[i][j]]]

-----------------------------------------------------------------------------
(* The parameter names *)

names ==
    <<"M0", "sM0", "delM", "alfa", "beta", "x10", "eta_x1", "sx1", "c0",
      "eta_c", "sc", "Om0", "OL0">>

Names13 == Range(names)

-----------------------------------------------------------------------------
(* priors *)

\* -1.e9, in units of 1.e8
PriorReject == -10

PriorsOm0OpenAbove(xmod, name) ==
    IF name = "M0" /\ (xmod > -170 \/ xmod < -210) THEN PriorReject
    ELSE IF name = "Om0" /\ (xmod >= 12 \/ xmod < 0) THEN PriorReject
    ELSE IF name = "OL0" /\ (xmod > 12 \/ xmod < 0) THEN PriorReject
    ELSE IF name = "sM0" /\ (xmod <= 0 \/ xmod > 10) THEN PriorReject
    ELSE IF name = "alfa" /\ (xmod <= 0 \/ xmod > 10) THEN PriorReject
    ELSE IF name = "beta" /\ (xmod <= 0 \/ xmod > 50) THEN PriorReject
    ELSE IF name = "x10" /\ (xmod <= -5 \/ xmod > 5) THEN PriorReject
    ELSE IF name = "eta_x1" /\ (xmod < -5 \/ xmod > 5) THEN PriorReject
    ELSE IF name = "sx1" /\ (xmod <= 0 \/ xmod > 2) THEN PriorReject
    ELSE IF name = "c0" /\ (xmod <= -1 \/ xmod > 1) THEN PriorReject
    ELSE IF name = "eta_c" /\ (xmod < -1 \/ xmod > 1) THEN PriorReject
    ELSE IF name = "sc" /\ (xmod <= 0 \/ xmod > 1) THEN PriorReject
    ELSE 0

\* priors(xmod, name): the chain of ifs of lines 115-151, in their order; a
\* name none of them tests (delM, or a name outside the 13) falls through
\* to the initial prior = 0.
Priors(xmod, name) ==
    IF name = "M0" /\ (xmod > -170 \/ xmod < -210) THEN PriorReject
    ELSE IF name = "Om0" /\ (xmod > 12 \/ xmod < 0) THEN PriorReject
    ELSE IF name = "OL0" /\ (xmod > 12 \/ xmod < 0) THEN PriorReject
    ELSE IF name = "sM0" /\ (xmod <= 0 \/ xmod > 10) THEN PriorReject
    ELSE IF name = "alfa" /\ (xmod <= 0 \/ xmod > 10) THEN PriorReject
    ELSE IF name = "beta" /\ (xmod <= 0 \/ xmod > 50) THEN PriorReject
    ELSE IF name = "x10" /\ (xmod <= -5 \/ xmod > 5) THEN PriorReject
    ELSE IF name = "eta_x1" /\ (xmod < -5 \/ xmod > 5) THEN PriorReject
    ELSE IF name = "sx1" /\ (xmod <= 0 \/ xmod > 2) THEN PriorReject
    ELSE IF name = "c0" /\ (xmod <= -1 \/ xmod > 1) THEN PriorReject
    ELSE IF name = "eta_c" /\ (xmod < -1 \/ xmod > 1) THEN PriorReject
    ELSE IF name = "sc" /\ (xmod <= 0 \/ xmod > 1) THEN PriorReject
    ELSE 0

-----------------------------------------------------------------------------
(* mu_model *)

\* np.log10 on the positive whole numbers the model feeds it: exact on the
\* powers of ten, which are the only arguments the datasets below produce.
RECURSIVE Log10(_)
Log10(n) == IF n < 10 THEN 0 ELSE 1 + Log10(n \div 10)

\* intsp[iz](Om0, OL0): an interpolant is kept as its values at the points
\* it is evaluated at.
SplineCall(sp, Om0, OL0) == sp[<<Om0, OL0>>]

\* mu_model(zCMB, Om0, OL0, cH0, intsp), lines 89-95: a new array shaped
\* like zCMB, filled with 25 + 5 log10(d_L cH0), in tenths.
MuModel(zCMB, Om0, OL0, cH0, intsp) ==
    [iz \in 1..Len(zCMB) |->
        250 + 50 * Log10(SplineCall(intsp[iz], Om0, OL0) * cH0)]

-----------------------------------------------------------------------------
(* The covariance of one evaluation *)

\* block3, lines 239-242.  Rows and columns: magnitude, stretch, color.
Block3(par) ==
    LET vM0 == par.sM0 * par.sM0
        vx1 == par.sx1 * par.sx1
        vc  == par.sc * par.sc
    IN  << << vM0 + vx1 * par.alfa * par.alfa + vc * par.beta * par.beta,
              -vx1 * par.alfa, vc * par.beta >>,
           << -vx1 * par.alfa, vx1, 0 >>,
           << vc * par.beta, 0, vc >> >>

\* block_diag(*[block3 for i in range(Ns)]), line 243
BlockDiag(b, Ns) ==
    [i \in 1..(3 * Ns) |-> [j \in 1..(3 * Ns) |->
        IF (i - 1) \div 3 = (j - 1) \div 3
        THEN b[((i - 1) % 3) + 1][((j - 1) % 3) + 1]
        ELSE 0]]

\* The elimination cho_factor performs, in its fraction-free form, which
\* stays in the integers; M is the array after k - 1 columns, prev the
\* previous pivot.  The k-th pivot is the k-th leading principal minor:
\* LAPACK's potrf stops with info = k at the first one that is not
\* positive, leaving the array as it then is.
RECURSIVE Eliminate(_, _, _)
Eliminate(M, k, prev) ==
    LET n == Len(M) IN
    IF k > n THEN [c |-> M, info |-> 0]
    ELSE LET pivot == M[k][k] IN
         IF pivot <= 0 THEN [c |-> M, info |-> k]
         ELSE Eliminate(
                [i \in 1..n |-> [j \in 1..n |->
                    IF i > k /\ j > k
                    THEN (pivot * M[i][j] - M[i][k] * M[k][j]) \div prev
                    ELSE M[i][j]]],
                k + 1, pivot)

ChoFactorNoCheck(a) == [c |-> Eliminate(a, 1, 1).c, info |-> 0]

\* cho_factor(covlike, overwrite_a=True, lower=True), line 247: c is what
\* the array holds afterwards, info # 0 is scipy's LinAlgError ("info-th
\* leading minor of the array is not positive definite").
ChoFactor(a) == Eliminate(a, 1, 1)

\* np.diag(chol_fac[0]), line 254: the pivots
Diag(c) == [k \in 1..Len(c) |-> c[k][k]]

-----------------------------------------------------------------------------
(* The residual of one evaluation *)

\* a[start::3], a[start::3] = v  (start counted from 0, as in the source)
GetSlice(a, start) == [i \in 1..(Len(a) \div 3) |-> a[3 * (i - 1) + start + 1]]

SetSlice(a, start, v) ==
    [k \in 1..Len(a) |-> IF (k - 1) % 3 = start THEN v[((k - 1) \div 3) + 1] ELSE a[k]]

VecSub(a, b) == [k \in 1..Len(a) |-> a[k] - b[k]]

\* x10z = x10 + eta_x1*zCMB; c0z = c0 + eta_c*zCMB, line 249
X10z(par, zCMB) == [i \in 1..Len(zCMB) |-> par.x10 + par.eta_x1 * zCMB[i]]

C0z(par, zCMB) == [i \in 1..Len(zCMB) |-> par.c0 + par.eta_c * zCMB[i]]

ImsAtLeast(mst) == [i \in 1..Len(mst) |-> mst[i] >= 100]

\* ims = (mst > 10.0), line 250
Ims(mst) == [i \in 1..Len(mst) |-> mst[i] > 100]

\* M0z[~ims] = M0; M0z[ims] = M0 + delM, line 251
M0zAssign(M0z, ims, par) ==
    [i \in 1..Len(M0z) |-> IF ims[i] THEN par.M0 + par.delM ELSE par.M0]

\* dobsd[::3] = dobs[::3] - mu, line 248
DobsdAssign(dobsd, dobs, mu) == SetSlice(dobsd, 0, VecSub(GetSlice(dobs, 0), mu))

\* Y0[::3] = M0z - alfa*x10z + beta*c0z; Y0[1::3] = x10z; Y0[2::3] = c0z,
\* line 252
Y0Assign(Y0, M0z, x10z, c0z, par) ==
    SetSlice(
      SetSlice(
        SetSlice(Y0, 0, [i \in 1..Len(M0z) |->
                          M0z[i] - par.alfa * x10z[i] + par.beta * c0z[i]]),
        1, x10z),
      2, c0z)

\* like, lines 254-255: prefact0 - sum(log(diag(chol))) - 0.5 dm.C^-1 dm +
\* prior is a function of Nobs, of the factor (its diagonal and, through
\* cho_solve, the whole of it), of dm and of prior; the value is kept as
\* the tuple of these.
Like(Nobs, c, dm, prior) == <<Nobs, Diag(c), c, dm, prior>>

-----------------------------------------------------------------------------
(* Objects of the heap *)

Procs == {1, 2}

CallerNames == {"dobs", "covobs", "zCMB", "cH0", "intsp", "mst", "anames", "kwargs"}

LocalNames == {"kwargs", "dobsd", "Y0", "M0z", "mu", "covlike"}

Objects == ({0} \X CallerNames) \cup (Procs \X LocalNames)

Arg(n) == <<0, n>>

KwargsShared(p) == Arg("kwargs")

\* **kwargs in the signature, line 154: every call gets a dictionary of its
\* own, filled from the keyword arguments the caller passes.
KwargsObj(p) == <<p, "kwargs">>

DobsdAliased(p) == Arg("dobs")

\* dobsd = np.zeros((Nobs)), line 215: an array of the call's own, which
\* line 217 fills with a copy of dobs.
DobsdObj(p) == <<p, "dobsd">>

\* covlike = covobs + ATCOVlA, line 244: the sum is a new array.
CovlikeObj(p) == <<p, "covlike">>

\* Y0 = np.zeros((Nobs)), M0z = np.zeros((Ns)), lines 215-216
Y0Obj(p) == <<p, "Y0">>

M0zObj(p) == <<p, "M0z">>

\* mu_cosmo = np.zeros_like(zCMB), line 89
MuObj(p) == <<p, "mu">>

\* kwargs[name] = value on a dictionary
DictSet(d, name, value) ==
    [n \in (DOMAIN d) \cup {name} |-> IF n = name THEN value ELSE d[n]]

-----------------------------------------------------------------------------
(* Outcomes of a call *)

NoOutcome == [kind |-> "none", val |-> <<>>, exc |-> ""]

Returned(v) == [kind |-> "return", val |-> v, exc |-> ""]

Raised(e) == [kind |-> "raise", val |-> <<>>, exc |-> e]

\* -1.e9, in units of 1.e8 (line 226)
Sentinel == -10

\* -1.e8, in units of 1.e8 (line 225)
PriorThreshold == -1

LocInit ==
    [xw |-> <<>>, ip |-> 0, prior |-> 0, contrib |-> <<>>, par |-> <<>>,
     dm |-> <<>>, Ns |-> 0, Nobs |-> 0]

-----------------------------------------------------------------------------
(* The inputs the model draws: datasets, active-name lists, fixed values *)

\* The points (Om0, OL0) at which the interpolants are evaluated
EvalPts == {0, 3, 12} \X {0, 6, 12}

SplineNear == [pt \in EvalPts |-> IF pt[1] + pt[2] >= 12 THEN 100 ELSE 10]

SplineFar == [pt \in EvalPts |-> IF pt[1] > pt[2] THEN 10 ELSE 100]

\* Two supernovae, one with host mass exactly 10.0 and one above it
DataTwo ==
    [zCMB   |-> <<1, 2>>,
     mst    |-> <<100, 101>>,
     dobs   |-> <<162, 2, 1, 213, 1, 3>>,
     covobs |-> << <<4, 0, 0, 1, 0, 0>>, <<0, 1, 0, 0, 0, 0>>, <<0, 0, 1, 0, 0, 0>>,
                   <<1, 0, 0, 4, 0, 0>>, <<0, 0, 0, 0, 1, 0>>, <<0, 0, 0, 0, 0, 1>> >>,
     cH0    |-> 10,
     intsp  |-> <<SplineNear, SplineFar>>]

\* One supernova with a low-mass host and no observational covariance
DataOne ==
    [zCMB   |-> <<3>>,
     mst    |-> <<99>>,
     dobs   |-> <<211, 4, 2>>,
     covobs |-> ZeroMat(3),
     cH0    |-> 10,
     intsp  |-> <<SplineFar>>]

\* Two supernovae whose magnitudes the observational covariance correlates
\* more strongly than their variances allow: the combined covariance is
\* positive-definite only for the larger values of alfa and beta drawn below.
DataIndefinite ==
    [zCMB   |-> <<1, 2>>,
     mst    |-> <<101, 99>>,
     dobs   |-> <<162, 2, 1, 213, 1, 3>>,
     covobs |-> << <<1, 0, 0, 8, 0, 0>>, <<0, 1, 0, 0, 0, 0>>, <<0, 0, 1, 0, 0, 0>>,
                   <<8, 0, 0, 1, 0, 0>>, <<0, 0, 0, 0, 1, 0>>, <<0, 0, 0, 0, 0, 1>> >>,
     cH0    |-> 10,
     intsp  |-> <<SplineNear, SplineFar>>]

Datasets == {DataTwo, DataOne, DataIndefinite}

\* The values of all 13 parameters the driver builds its dictionary from
\* (lines 337-344 and 354), rounded to the model's units; delM,
\* eta_x1 and eta_c are taken non-zero so that their terms show.
BaseValues ==
    [M0 |-> -190, sM0 |-> 1, delM |-> 1, alfa |-> 1, beta |-> 2, x10 |-> 0,
     eta_x1 |-> 1, sx1 |-> 1, c0 |-> 0, eta_c |-> 1, sc |-> 1, Om0 |-> 3,
     OL0 |-> 6]

\* The active-name lists: each name alone (and a name outside the 13), the
\* driver's own list (line 351), and some pairs.
ActiveLists ==
    {<<n>> : n \in Names13 \cup {"H0"}}
    \cup {<<"M0", "Om0", "OL0">>, <<"sM0", "sc">>, <<"alfa", "beta">>,
          <<"delM", "M0">>, <<"x10", "eta_x1">>, <<"c0", "H0">>}

\* The values a sampler proposes for a name: below, on and above the ends
\* of its prior interval, and inside it.  The accepted values of sM0, alfa
\* and beta, which enter the covariance squared, are kept small, so that the
\* exact elimination of a 6 x 6 matrix stays within TLC's 32-bit integers.
TestValues(name) ==
    CASE name = "M0"     -> {-211, -210, -190, -170, -169}
      [] name = "sM0"    -> {0, 1, 2, 11}
      [] name = "delM"   -> {-30, 0, 30}
      [] name = "alfa"   -> {0, 1, 2, 11}
      [] name = "beta"   -> {0, 1, 3, 51}
      [] name = "x10"    -> {-5, -4, 0, 5, 6}
      [] name = "eta_x1" -> {-6, -5, 0, 5, 6}
      [] name = "sx1"    -> {0, 1, 2, 3}
      [] name = "c0"     -> {-1, 0, 1, 2}
      [] name = "eta_c"  -> {-2, -1, 0, 1, 2}
      [] name = "sc"     -> {0, 1, 2}
      [] name = "Om0"    -> {-1, 0, 3, 12, 13}
      [] name = "OL0"    -> {-1, 0, 6, 12, 13}
      [] OTHER           -> {0, 7}

RECURSIVE XwChoices(_)
XwChoices(an) ==
    IF an = <<>> THEN {<<>>}
    ELSE {<<v>> \o t : v \in TestValues(Head(an)), t \in XwChoices(Tail(an))}

Restrict(d, keys) == [n \in keys |-> d[n]]

\* The keyword dictionaries a caller passes with a list of active names:
\* all 13 names (what the driver does, line 354 and line 400), the names
\* that are not active, those without one the likelihood stage reads, and
\* all 13 names with one more.
KwChoices(an) ==
    {BaseValues,
     Restrict(BaseValues, Names13 \ Range(an)),
     Restrict(BaseValues, (Names13 \ Range(an)) \ {"beta"}),
     DictSet(BaseValues, "H0", 700)}

CallerHeap(d, an, kw) ==
    [zCMB |-> d.zCMB, mst |-> d.mst, dobs |-> d.dobs, covobs |-> d.covobs,
     cH0 |-> d.cH0, intsp |-> d.intsp, anames |-> an, kwargs |-> kw]

HeapOf(caller) == [o \in Objects |-> IF o[1] = 0 THEN caller[o[2]] ELSE <<>>]

NoPriorsCall == [pc |-> "off", name |-> "", xmod |-> 0, result |-> 0]

NoDLCall == [pc |-> "off"]

InitEval(workers, caller) ==
    /\ mem = HeapOf(caller)
    /\ orig = caller
    /\ active = workers
    /\ pc = [p \in Procs |-> "idle"]
    /\ loc = [p \in Procs |-> LocInit]
    /\ outcome = [p \in Procs |-> NoOutcome]
    /\ ran = [p \in Procs |-> {}]
    /\ ncalls = 0

\* One sampler chain calling sn_like_walk again and again
Init ==
    /\ \E d \in Datasets, an \in ActiveLists :
         \E kw \in KwChoices(an) : InitEval({1}, CallerHeap(d, an, kw))
    /\ pr = NoPriorsCall
    /\ dl = NoDLCall

-----------------------------------------------------------------------------
(* sn_like_walk, one action per stage *)

\* Lines 214-219: the sizes, the arrays of the call, dobsd[:] = dobs[:],
\* prior = 0; and the binding of **kwargs.  xw is aligned to anames.
Call(p) ==
    /\ p \in active
    /\ pc[p] = "idle"
    /\ ncalls < MaxCalls
    /\ \E xw \in XwChoices(mem[Arg("anames")]) :
         loc' = [loc EXCEPT ![p] =
                    [LocInit EXCEPT !.xw = xw, !.ip = 1,
                                    !.Ns = Len(mem[Arg("zCMB")]),
                                    !.Nobs = Len(mem[Arg("dobs")])]]
    /\ mem' = [o \in Objects |->
                 IF o = DobsdObj(p) THEN mem[Arg("dobs")]
                 ELSE IF o = KwargsObj(p) THEN mem[Arg("kwargs")]
                 ELSE IF o = Y0Obj(p) THEN Zeros(Len(mem[Arg("dobs")]))
                 ELSE IF o = M0zObj(p) THEN Zeros(Len(mem[Arg("zCMB")]))
                 ELSE mem[o]]
    /\ pc' = [pc EXCEPT ![p] = "prior_loop"]
    /\ ncalls' = ncalls + 1
    /\ ran' = [ran EXCEPT ![p] = {}]
    /\ UNCHANGED <<outcome, orig, active, pr, dl>>

\* Lines 221-223, one iteration: kwargs[name] = xw[ip]; prior += priors(..)
PriorLoop(p) ==
    /\ pc[p] = "prior_loop"
    /\ loc[p].ip <= Len(mem[Arg("anames")])
    /\ LET ip   == loc[p].ip
           name == mem[Arg("anames")][ip]
           x    == loc[p].xw[ip]
       IN  /\ mem' = [mem EXCEPT ![KwargsObj(p)] = DictSet(@, name, x)]
           /\ loc' = [loc EXCEPT ![p].prior = @ + Priors(x, name),
                                 ![p].contrib = Append(@, Priors(x, name)),
                                 ![p].ip = ip + 1]
    /\ ran' = [ran EXCEPT ![p] = @ \cup {"prior"}]
    /\ UNCHANGED <<pc, outcome, orig, ncalls, active, pr, dl>>

RejectsOnlyOne(prior) == prior = PriorReject

RejectsBelow(prior) == prior < PriorReject

\* if prior <= -1.e8, line 225
Rejects(prior) == prior <= PriorThreshold

\* Lines 225-226: return -1.e9
PriorRejected(p) ==
    /\ pc[p] = "prior_loop"
    /\ loc[p].ip > Len(mem[Arg("anames")])
    /\ Rejects(loc[p].prior)
    /\ outcome' = [outcome EXCEPT ![p] = Returned(<<Sentinel>>)]
    /\ pc' = [pc EXCEPT ![p] = "done"]
    /\ UNCHANGED <<mem, loc, ran, orig, ncalls, active, pr, dl>>

\* Line 227: the else branch is entered
PriorFeasible(p) ==
    /\ pc[p] = "prior_loop"
    /\ loc[p].ip > Len(mem[Arg("anames")])
    /\ ~Rejects(loc[p].prior)
    /\ ran' = [ran EXCEPT ![p] = @ \cup {"else"}]
    /\ pc' = [pc EXCEPT ![p] = "bind"]
    /\ UNCHANGED <<mem, loc, outcome, orig, ncalls, active, pr, dl>>

\* The order in which lines 228-233 read the dictionary
BindOrder ==
    <<"M0", "sM0", "alfa", "beta", "x10", "eta_x1", "sx1", "c0", "eta_c",
      "sc", "delM", "Om0", "OL0">>

MissingKeys(kw) == {i \in 1..Len(BindOrder) : BindOrder[i] \notin DOMAIN kw}

ReadParamsWithDefaults(kw) ==
    [err |-> FALSE, par |-> [n \in Names13 |-> IF n \in DOMAIN kw THEN kw[n] ELSE 0]]

\* M0, sM0 = kwargs['M0'], kwargs['sM0'] ... OL0 = kwargs['OL0'], lines
\* 228-233: a subscript with a key the dictionary lacks raises KeyError.
ReadParams(kw) ==
    IF MissingKeys(kw) # {}
    THEN [err |-> TRUE, par |-> <<>>]
    ELSE [err |-> FALSE, par |-> Restrict(kw, Names13)]

\* Lines 228-233 with a key missing: kwargs[..] raises KeyError
BindKeyError(p) ==
    /\ pc[p] = "bind"
    /\ ReadParams(mem[KwargsObj(p)]).err
    /\ outcome' = [outcome EXCEPT ![p] = Raised("KeyError")]
    /\ pc' = [pc EXCEPT ![p] = "done"]
    /\ UNCHANGED <<mem, loc, ran, orig, ncalls, active, pr, dl>>

\* Lines 228-233: the 13 values are read out of the dictionary
BindParams(p) ==
    /\ pc[p] = "bind"
    /\ ~ReadParams(mem[KwargsObj(p)]).err
    /\ loc' = [loc EXCEPT ![p].par = ReadParams(mem[KwargsObj(p)]).par]
    /\ pc' = [pc EXCEPT ![p] = "mu"]
    /\ UNCHANGED <<mem, outcome, ran, orig, ncalls, active, pr, dl>>

\* Line 236: mu = mu_model(zCMB, Om0, OL0, cH0, intsp)
MuStep(p) ==
    /\ pc[p] = "mu"
    /\ mem' = [mem EXCEPT ![MuObj(p)] =
                 MuModel(mem[Arg("zCMB")], loc[p].par.Om0, loc[p].par.OL0,
                         mem[Arg("cH0")], mem[Arg("intsp")])]
    /\ ran' = [ran EXCEPT ![p] = @ \cup {"mu_model"}]
    /\ pc' = [pc EXCEPT ![p] = "cov"]
    /\ UNCHANGED <<loc, outcome, orig, ncalls, active, pr, dl>>

\* Lines 239-244: covlike = covobs + ATCOVlA
CovStep(p) ==
    /\ pc[p] = "cov"
    /\ mem' = [mem EXCEPT ![CovlikeObj(p)] =
                 MatAdd(mem[Arg("covobs")], BlockDiag(Block3(loc[p].par), loc[p].Ns))]
    /\ ran' = [ran EXCEPT ![p] = @ \cup {"covariance"}]
    /\ pc' = [pc EXCEPT ![p] = "chol"]
    /\ UNCHANGED <<loc, outcome, orig, ncalls, active, pr, dl>>

\* Line 247, the factorization succeeds: covlike now holds the factor
CholFactored(p) ==
    /\ pc[p] = "chol"
    /\ ChoFactor(mem[CovlikeObj(p)]).info = 0
    /\ mem' = [mem EXCEPT ![CovlikeObj(p)] = ChoFactor(@).c]
    /\ ran' = [ran EXCEPT ![p] = @ \cup {"cho_factor"}]
    /\ pc' = [pc EXCEPT ![p] = "residual"]
    /\ UNCHANGED <<loc, outcome, orig, ncalls, active, pr, dl>>

\* Line 247, the factorization fails: cho_factor raises LinAlgError, which
\* nothing in sn_like_walk catches
CholFailed(p) ==
    /\ pc[p] = "chol"
    /\ ChoFactor(mem[CovlikeObj(p)]).info # 0
    /\ mem' = [mem EXCEPT ![CovlikeObj(p)] = ChoFactor(@).c]
    /\ ran' = [ran EXCEPT ![p] = @ \cup {"cho_factor"}]
    /\ outcome' = [outcome EXCEPT ![p] = Raised("LinAlgError")]
    /\ pc' = [pc EXCEPT ![p] = "done"]
    /\ UNCHANGED <<loc, orig, ncalls, active, pr, dl>>

\* Lines 248-253: the residual dm = dobsd - Y0
ResidualStep(p) ==
    /\ pc[p] = "residual"
    /\ LET par   == loc[p].par
           zCMB  == mem[Arg("zCMB")]
           dobsd == DobsdAssign(mem[DobsdObj(p)], mem[Arg("dobs")], mem[MuObj(p)])
           M0z   == M0zAssign(mem[M0zObj(p)], Ims(mem[Arg("mst")]), par)
           Y0    == Y0Assign(mem[Y0Obj(p)], M0z, X10z(par, zCMB), C0z(par, zCMB), par)
       IN  /\ mem' = [o \in Objects |->
                        IF o = DobsdObj(p) THEN dobsd
                        ELSE IF o = M0zObj(p) THEN M0z
                        ELSE IF o = Y0Obj(p) THEN Y0
                        ELSE mem[o]]
           /\ loc' = [loc EXCEPT ![p].dm = VecSub(dobsd, Y0)]
    /\ ran' = [ran EXCEPT ![p] = @ \cup {"residual"}]
    /\ pc' = [pc EXCEPT ![p] = "like"]
    /\ UNCHANGED <<outcome, orig, ncalls, active, pr, dl>>

\* Lines 254-257: like = prefact - 0.5 dm.cho_solve(chol_fac, dm) + prior
LikeStep(p) ==
    /\ pc[p] = "like"
    /\ outcome' = [outcome EXCEPT ![p] =
                     Returned(Like(loc[p].Nobs, mem[CovlikeObj(p)], loc[p].dm,
                                   loc[p].prior))]
    /\ ran' = [ran EXCEPT ![p] = @ \cup {"like"}]
    /\ pc' = [pc EXCEPT ![p] = "done"]
    /\ UNCHANGED <<mem, loc, orig, ncalls, active, pr, dl>>

\* The call is over: its arrays and its dictionary are gone
Finish(p) ==
    /\ pc[p] = "done"
    /\ mem' = [o \in Objects |-> IF o[1] = p THEN <<>> ELSE mem[o]]
    /\ loc' = [loc EXCEPT ![p] = LocInit]
    /\ outcome' = [outcome EXCEPT ![p] = NoOutcome]
    /\ ran' = [ran EXCEPT ![p] = {}]
    /\ pc' = [pc EXCEPT ![p] = "idle"]
    /\ UNCHANGED <<orig, ncalls, active, pr, dl>>

Next ==
    \E p \in Procs :
        \/ Call(p)
        \/ PriorLoop(p)
        \/ PriorRejected(p)
        \/ PriorFeasible(p)
        \/ BindKeyError(p)
        \/ BindParams(p)
        \/ MuStep(p)
        \/ CovStep(p)
        \/ CholFactored(p)
        \/ CholFailed(p)
        \/ ResidualStep(p)
        \/ LikeStep(p)
        \/ Finish(p)

Spec == Init /\ [][Next]_vars

-----------------------------------------------------------------------------
(* sn_like_walk as one function of its arguments: the call run alone *)

\* the dictionary after the loop of lines 221-223 from position i on
RECURSIVE KwAfter(_, _, _, _)
KwAfter(kw, an, xw, i) ==
    IF i > Len(an) THEN kw ELSE KwAfter(DictSet(kw, an[i], xw[i]), an, xw, i + 1)

\* prior after the loop of lines 221-223 from position i on
RECURSIVE PriorSum(_, _, _)
PriorSum(an, xw, i) ==
    IF i > Len(an) THEN 0 ELSE Priors(xw[i], an[i]) + PriorSum(an, xw, i + 1)

\* sn_like_walk(xw, dobs, covobs, zCMB, cH0, intsp, mst, emst, dset, anames,
\* **kwargs), lines 214-257, with c the record of the caller's objects
SnLikeWalk(xw, c) ==
    LET prior == PriorSum(c.anames, xw, 1)
        read  == ReadParams(KwAfter(c.kwargs, c.anames, xw, 1))
    IN  IF Rejects(prior) THEN Returned(<<Sentinel>>)
        ELSE IF read.err THEN Raised("KeyError")
        ELSE LET par   == read.par
                 Ns    == Len(c.zCMB)
                 Nobs  == Len(c.dobs)
                 mu    == MuModel(c.zCMB, par.Om0, par.OL0, c.cH0, c.intsp)
                 fac   == ChoFactor(MatAdd(c.covobs, BlockDiag(Block3(par), Ns)))
                 dobsd == DobsdAssign(c.dobs, c.dobs, mu)
                 M0z   == M0zAssign(Zeros(Ns), Ims(c.mst), par)
                 Y0    == Y0Assign(Zeros(Nobs), M0z, X10z(par, c.zCMB),
                                   C0z(par, c.zCMB), par)
             IN  IF fac.info # 0 THEN Raised("LinAlgError")
                 ELSE Returned(Like(Nobs, fac.c, VecSub(dobsd, Y0), prior))

\* Two workers evaluating on the same dataset, covariance and interpolants
ConcLists == {<<"M0">>, <<"alfa", "beta">>, <<"delM", "M0">>}

InitConc ==
    /\ \E d \in {DataTwo, DataIndefinite}, an \in ConcLists :
         \E kw \in {BaseValues, Restrict(BaseValues, Names13 \ {"M0", "sc"})} :
            InitEval({1, 2}, CallerHeap(d, an, kw))
    /\ pr = NoPriorsCall
    /\ dl = NoDLCall

SpecConc == InitConc /\ [][Next]_vars

-----------------------------------------------------------------------------
(* priors called on its own *)

XRange == (-210 - XMargin)..(50 + XMargin)

InitPriors ==
    /\ InitEval({}, CallerHeap(DataOne, <<"M0">>, BaseValues))
    /\ pr \in {[pc |-> "call", name |-> n, xmod |-> x, result |-> 0] :
                 n \in Names13 \cup {"H0"}, x \in XRange}
    /\ dl = NoDLCall

PriorsCall ==
    /\ pr.pc = "call"
    /\ pr' = [pr EXCEPT !.pc = "returned", !.result = Priors(pr.xmod, pr.name)]
    /\ UNCHANGED <<mem, pc, loc, outcome, ran, orig, ncalls, active, dl>>

NextPriors == PriorsCall

SpecPriors == InitPriors /\ [][NextPriors]_vars

-----------------------------------------------------------------------------
(* dL_init *)

\* The table is kept by its shape: slice iz is a rows x cols array whose
\* entries are those of the file times num/den.  An axis of length n:
Axis(n) == [k \in 1..n |-> 2 * (k - 1)]

GridSizes == {4, 5}

Slice(g) == [rows |-> g, cols |-> g, num |-> 1, den |-> 1]

InitDL ==
    /\ InitEval({}, CallerHeap(DataOne, <<"M0">>, BaseValues))
    /\ pr = NoPriorsCall
    /\ \E n \in 1..MaxSn, m \in 1..MaxSn, N \in 1..MaxSn :
         \E g \in GridSizes, a \in GridSizes, b \in GridSizes :
            dl = [pc |-> "start",
                  zCMB |-> [i \in 1..n |-> i],
                  zhel |-> [i \in 1..m |-> i + 1],
                  Om |-> Axis(a), Oml |-> Axis(b),
                  file |-> [i \in 1..N |-> Slice(g)],
                  inttab |-> <<>>, iz |-> 0, intsp |-> <<>>,
                  outcome |-> NoOutcome]

\* Lines 56-57: inttab = np.load(..); intsp = []
DLLoad ==
    /\ dl.pc = "start"
    /\ dl' = [dl EXCEPT !.pc = "loop", !.inttab = dl.file, !.iz = 1]
    /\ UNCHANGED <<mem, pc, loc, outcome, ran, orig, ncalls, active, pr>>

\* Line 59 with iz past the end of inttab or of zhel: IndexError
DLIndexError ==
    /\ dl.pc = "loop"
    /\ dl.iz <= Len(dl.zCMB)
    /\ (dl.iz > Len(dl.inttab) \/ dl.iz > Len(dl.zhel))
    /\ dl' = [dl EXCEPT !.pc = "done", !.outcome = Raised("IndexError")]
    /\ UNCHANGED <<mem, pc, loc, outcome, ran, orig, ncalls, active, pr>>

\* inttab[iz] *= (1.0 + zhel[iz])/(1.0 + zCMB[iz]), line 59
Rescale(z, zhel, zCMB) == [z EXCEPT !.num = @ * (1 + zhel), !.den = @ * (1 + zCMB)]

\* RectBivariateSpline(Om, Oml, z, ...), line 60, accepts z only if it has
\* one row per element of Om and one column per element of Oml.
SplineFits(Om, Oml, z) == Len(Om) = z.rows /\ Len(Oml) = z.cols

\* Lines 59-61, one iteration
DLIterate ==
    /\ dl.pc = "loop"
    /\ dl.iz <= Len(dl.zCMB) /\ dl.iz <= Len(dl.inttab) /\ dl.iz <= Len(dl.zhel)
    /\ LET z == Rescale(dl.inttab[dl.iz], dl.zhel[dl.iz], dl.zCMB[dl.iz])
       IN  /\ SplineFits(dl.Om, dl.Oml, z)
           /\ dl' = [dl EXCEPT !.inttab[dl.iz] = z,
                               !.intsp = Append(@, [x |-> dl.Om, y |-> dl.Oml, z |-> z]),
                               !.iz = @ + 1]
    /\ UNCHANGED <<mem, pc, loc, outcome, ran, orig, ncalls, active, pr>>

\* Lines 59-60, the spline constructor raises ValueError
DLSplineError ==
    /\ dl.pc = "loop"
    /\ dl.iz <= Len(dl.zCMB) /\ dl.iz <= Len(dl.inttab) /\ dl.iz <= Len(dl.zhel)
    /\ LET z == Rescale(dl.inttab[dl.iz], dl.zhel[dl.iz], dl.zCMB[dl.iz])
       IN  /\ ~SplineFits(dl.Om, dl.Oml, z)
           /\ dl' = [dl EXCEPT !.inttab[dl.iz] = z, !.pc = "done",
                               !.outcome = Raised("ValueError")]
    /\ UNCHANGED <<mem, pc, loc, outcome, ran, orig, ncalls, active, pr>>

\* Lines 58 and 63: zCMB is exhausted, return intsp
DLReturn ==
    /\ dl.pc = "loop"
    /\ dl.iz > Len(dl.zCMB)
    /\ dl' = [dl EXCEPT !.pc = "done", !.outcome = Returned(dl.intsp)]
    /\ UNCHANGED <<mem, pc, loc, outcome, ran, orig, ncalls, active, pr>>

NextDL == DLLoad \/ DLIndexError \/ DLIterate \/ DLSplineError \/ DLReturn

SpecDL == InitDL /\ [][NextDL]_vars

-----------------------------------------------------------------------------
(* What the claims speak of *)

\* The prior intervals as the specification lists them (section 4.4), in
\* the model's units; delM is unconstrained.
InInterval(name, x) ==
    CASE name = "M0"     -> -210 <= x /\ x <= -170
      [] name = "sM0"    -> 0 < x /\ x <= 10
      [] name = "Om0"    -> 0 <= x /\ x <= 12
      [] name = "OL0"    -> 0 <= x /\ x <= 12
      [] name = "alfa"   -> 0 < x /\ x <= 10
      [] name = "beta"   -> 0 < x /\ x <= 50
      [] name = "x10"    -> -5 < x /\ x <= 5
      [] name = "eta_x1" -> -5 <= x /\ x <= 5
      [] name = "sx1"    -> 0 < x /\ x <= 2
      [] name = "c0"     -> -1 < x /\ x <= 1
      [] name = "eta_c"  -> -1 <= x /\ x <= 1
      [] name = "sc"     -> 0 < x /\ x <= 1
      [] name = "delM"   -> TRUE

\* The positions of the active names whose proposed value is outside the
\* prior interval, in call p
OutOfRange(p) ==
    {i \in DOMAIN loc[p].xw :
        orig.anames[i] \in Names13 /\ ~InInterval(orig.anames[i], loc[p].xw[i])}

\* The value parameter n has in call p: the value proposed for it if it is
\* active (the last one, should the list name it twice), else the fixed one
ParamValue(p, n) ==
    LET at == {i \in DOMAIN loc[p].xw : orig.anames[i] = n}
    IN  IF at = {} THEN orig.kwargs[n]
        ELSE loc[p].xw[CHOOSE i \in at : \A j \in at : j <= i]

Provided(n) == n \in Range(orig.anames) \cup DOMAIN orig.kwargs

\* The call ended with a log-density computed by the likelihood stage
NormalReturn(p) ==
    pc[p] = "done" /\ outcome[p].kind = "return" /\ "like" \in ran[p]

LikelihoodSteps == {"mu_model", "covariance", "cho_factor", "residual", "like"}

\* C1: a call with at least one active parameter outside its prior interval
\* returns exactly the sentinel -1.e9, whatever else it is given.
C1_OutOfRangeReturnsSentinel ==
    \A p \in Procs :
        (pc[p] = "done" /\ OutOfRange(p) # {}) => outcome[p] = Returned(<<-10>>)

\* C1 witness: a finished call with two active parameters out of range and
\* a third in range.
C1_Witness ==
    /\ pc[1] = "done"
    /\ Cardinality(OutOfRange(1)) = 2
    /\ Len(loc[1].xw) = 3
    /\ outcome[1] = Returned(<<-10>>)

\* A vector v with v.Cv <= 0 shows that C is not positive-definite.
QuadForm(C, v) ==
    LET n == Len(C)
        RECURSIVE Row(_, _)
        Row(i, j) == IF j > n THEN 0 ELSE C[i][j] * v[j] + Row(i, j + 1)
        RECURSIVE Sum(_)
        Sum(i) == IF i > n THEN 0 ELSE v[i] * Row(i, 1) + Sum(i + 1)
    IN  Sum(1)

NotPositiveDefinite(C) ==
    \E v \in [1..Len(C) -> {-1, 0, 1}] :
        (\E i \in 1..Len(C) : v[i] # 0) /\ QuadForm(C, v) <= 0

\* The Combined Covariance of call p: Observational + Intrinsic-Scatter
CombinedCovariance(p) ==
    MatAdd(orig.covobs,
           BlockDiag(Block3([n \in Names13 |-> ParamValue(p, n)]), Len(orig.zCMB)))

\* C3: when the Combined Covariance of a feasible proposal is not
\* positive-definite, the call does not return a log-density computed from
\* it: it ends in an error the caller sees (LinAlgError), which is not the
\* return of the sentinel that a prior rejection is.
C3_NotPositiveDefiniteRaises ==
    \A p \in Procs :
        (/\ pc[p] = "done"
         /\ OutOfRange(p) = {}
         /\ \A n \in Names13 : Provided(n)
         /\ NotPositiveDefinite(CombinedCovariance(p)))
        => /\ outcome[p] = Raised("LinAlgError")
           /\ outcome[p] # Returned(<<-10>>)
           /\ "like" \notin ran[p]

\* C3 witness: a feasible proposal of alfa and beta whose Combined
\* Covariance is not positive-definite has ended in LinAlgError.
C3_Witness ==
    /\ pc[1] = "done"
    /\ OutOfRange(1) = {}
    /\ orig.anames = <<"alfa", "beta">>
    /\ NotPositiveDefinite(CombinedCovariance(1))
    /\ outcome[1] = Raised("LinAlgError")

\* C4 (the claim as stated): a name outside the 13 is rejected loudly:
\* its prior contribution is not a silent 0 and the call ends in an error.
C4_UnknownNameFailsLoudly ==
    \A p \in Procs :
        \A i \in 1..Len(loc[p].contrib) :
            orig.anames[i] \notin Names13
            => /\ loc[p].contrib[i] # 0
               /\ (pc[p] = "done" => outcome[p].kind = "raise")

\* C5: at every moment of every sequence of calls, whatever their outcome,
\* the caller's objects are what they were: dobs, covobs, zCMB, mst, cH0,
\* the interpolants, the active names and the caller's dictionary.
C5_InputsUnchanged ==
    \A n \in CallerNames : mem[Arg(n)] = orig[n]

\* C5 witness: the second call has returned a log-density, having been
\* given for a name of the caller's dictionary a value other than the
\* dictionary's.
C5_Witness ==
    /\ ncalls = 2
    /\ NormalReturn(1)
    /\ \E i \in DOMAIN loc[1].xw :
          /\ orig.anames[i] \in DOMAIN orig.kwargs
          /\ loc[1].xw[i] # orig.kwargs[orig.anames[i]]
    /\ mem[Arg("kwargs")] = orig.kwargs

\* C8 (the claim as stated): a call carried out as a normal evaluation has
\* disjoint active and fixed names whose union is exactly the 13 names.
C8_ActiveFixedPartition ==
    \A p \in Procs :
        NormalReturn(p)
        => /\ Range(orig.anames) \cap DOMAIN orig.kwargs = {}
           /\ Range(orig.anames) \cup DOMAIN orig.kwargs = Names13

\* C8 (amended): a call carried out as a normal evaluation has every one of
\* the 13 names among its active names or the keys of the dictionary it is
\* given (the two may overlap, as they do in the driver); a call that
\* passes the prior stage with one of the 13 names in neither raises
\* KeyError.
C8_AllNamesProvided ==
    \A p \in Procs :
        /\ NormalReturn(p) => \A n \in Names13 : Provided(n)
        /\ (pc[p] = "done" /\ "else" \in ran[p] /\ \E n \in Names13 : ~Provided(n))
           => outcome[p] = Raised("KeyError")

\* C8 witness: a normal evaluation whose active names are also keys of the
\* dictionary, as in the driver; and the names are all provided.
C8_Witness ==
    /\ NormalReturn(1)
    /\ orig.anames = <<"M0", "Om0", "OL0">>
    /\ DOMAIN orig.kwargs = Names13

\* C9: the likelihood stage is entered if and only if every active
\* parameter's prior contribution is 0; a call with a rejected parameter
\* returns right after the prior stage with none of the likelihood steps
\* executed; and where the likelihood stage is reached the accumulated
\* prior is exactly 0, which is what the log-density gets added.
C9_LikelihoodIffFeasible ==
    \A p \in Procs :
        LET contrib  == loc[p].contrib
            rejected == \E i \in 1..Len(contrib) : contrib[i] # 0
            past     == pc[p] \in {"bind", "mu", "cov", "chol", "residual", "like", "done"}
        IN  /\ ("else" \in ran[p] \/ ran[p] \cap LikelihoodSteps # {})
               => /\ ~rejected
                  /\ Len(contrib) = Len(orig.anames)
                  /\ loc[p].prior = 0
            /\ (past /\ rejected)
               => /\ pc[p] = "done"
                  /\ ran[p] = {"prior"}
                  /\ outcome[p].kind = "return"
                  /\ outcome[p].val = <<-10>>
            /\ (past /\ ~rejected) => "else" \in ran[p]
            /\ (pc[p] = "done" /\ ~rejected /\ outcome[p].kind = "return")
               => /\ LikelihoodSteps \subseteq ran[p]
                  /\ outcome[p].val[5] = 0

\* C9 witness: one call rejected after the prior stage alone.
C9_Witness ==
    /\ pc[1] = "done"
    /\ Len(loc[1].contrib) = 2
    /\ loc[1].contrib[1] = 0
    /\ loc[1].contrib[2] # 0
    /\ ran[1] = {"prior"}

\* C10: the residual has, for supernova i, with x1z = x10 + eta_x1 zCMB_i
\* and cz = c0 + eta_c zCMB_i, the magnitude slot mB_i - mu_i - (M0z_i -
\* alfa x1z + beta cz), the stretch slot x1_i - x1z and the color slot
\* c_i - cz, where M0z_i is M0 + delM if mst_i > 10.0 and M0 otherwise.
C10_Residual ==
    \A p \in Procs :
        "residual" \in ran[p] =>
            /\ Len(loc[p].dm) = 3 * Len(orig.zCMB)
            /\ \A i \in 1..Len(orig.zCMB) :
                 LET x1z == ParamValue(p, "x10") + ParamValue(p, "eta_x1") * orig.zCMB[i]
                     cz  == ParamValue(p, "c0") + ParamValue(p, "eta_c") * orig.zCMB[i]
                     M0z == IF orig.mst[i] > 100
                            THEN ParamValue(p, "M0") + ParamValue(p, "delM")
                            ELSE ParamValue(p, "M0")
                     mu  == 250 + 50 * Log10(
                              orig.intsp[i][<<ParamValue(p, "Om0"), ParamValue(p, "OL0")>>]
                              * orig.cH0)
                 IN  /\ loc[p].dm[3 * i - 2] =
                          orig.dobs[3 * i - 2] - mu
                          - (M0z - ParamValue(p, "alfa") * x1z + ParamValue(p, "beta") * cz)
                     /\ loc[p].dm[3 * i - 1] = orig.dobs[3 * i - 1] - x1z
                     /\ loc[p].dm[3 * i] = orig.dobs[3 * i] - cz

\* C10 witness: a residual computed for two supernovae, one with host mass
\* exactly 10.0 and one above it, with delM and both eta's non-zero.
C10_Witness ==
    /\ "residual" \in ran[1]
    /\ orig.mst = <<100, 101>>
    /\ ParamValue(1, "delM") # 0
    /\ ParamValue(1, "eta_x1") # 0
    /\ ParamValue(1, "eta_c") # 0
    /\ loc[1].dm[1] # loc[1].dm[4]

\* C2: priors returns 0 inside the interval of the named parameter and the
\* sentinel -1.e9 outside it, with the end points of section 4.4, 0 for
\* every value of delM, and no other value.
C2_PriorsMatchesIntervals ==
    (pr.pc = "returned" /\ pr.name \in Names13)
    => pr.result = IF InInterval(pr.name, pr.xmod) THEN 0 ELSE -10

\* C2 witness: priors has accepted Om0 at the closed upper end 1.2.
C2_Witness ==
    /\ pr.pc = "returned"
    /\ pr.name = "Om0"
    /\ pr.xmod = 12
    /\ pr.result = 0

\* C6: under every interleaving of the steps of two evaluations on the
\* same caller's objects, each evaluation ends as it ends when run alone.
C6_ConcurrentAsAlone ==
    \A p \in Procs : pc[p] = "done" => outcome[p] = SnLikeWalk(loc[p].xw, orig)

\* C6 witness: both evaluations are past their covariance step at once and
\* one of them has returned a log-density.
C6_Witness ==
    /\ NormalReturn(1)
    /\ pc[2] \in {"chol", "residual", "like"}
    /\ loc[1].xw # loc[2].xw

\* The sizes of dL_init's inputs disagree
SizesDisagree ==
    \/ Len(dl.Om) # dl.file[1].rows
    \/ Len(dl.Oml) # dl.file[1].cols
    \/ Len(dl.file) # Len(dl.zCMB)
    \/ Len(dl.zhel) # Len(dl.zCMB)

\* C7 (the claim as stated): dL_init fails, and returns no interpolants,
\* whenever the sizes of its inputs disagree; the list it returns has one
\* interpolant per supernova of the grid.
C7_MismatchFails ==
    dl.pc = "done"
    => /\ SizesDisagree => dl.outcome.kind = "raise"
       /\ dl.outcome.kind = "return" => Len(dl.outcome.val) = Len(dl.file)

=============================================================================
